---- MODULE Spec2Model ----
(***************************************************************************)
(* SoulClaw CLI (soulclaw_cli.py): configuration store, provider registry, *)
(* resolution of the effective provider / model / API key in cmd_generate, *)
(* the four-target generation loop, cmd_configure and cmd_show_config.     *)
(*                                                                         *)
(* Python strings are sequences of one-character strings; None is a value  *)
(* that is no such sequence.  A dict is the sequence of its (key, value)   *)
(* items in insertion order.  A file is a record [exists, data].           *)
(*                                                                         *)
(* One process runs at a time.  What lies outside the program is chosen    *)
(* freely: the answers typed at the prompts, whether a template file is    *)
(* there when load_prompt reads it, and whether the provider answers or    *)
(* call_ai raises.  Opening and writing config.json and the output files   *)
(* succeeds.                                                               *)
(***************************************************************************)
EXTENDS Integers, Sequences, FiniteSets, TLC

VARIABLES
    cfgFile,    \* the per-user config.json
    outFiles,   \* output_dir: filename -> file
    pc,         \* position of the running process: idle, render, dispatch, finish, exited
    command,    \* sub-command of the running (or last finished) process
    args,       \* argparse namespace of a generate run: provider, model, api_key
    cfg,        \* the dict load_config() returned (cmd_configure mutates it)
    provider,   \* cmd_generate's locals after resolution
    model,
    api_key,
    idx,        \* index in files_to_generate of the target being processed
    content,    \* cmd_generate's local: the text call_ai returned last
    trace,      \* what the run did so far: <<kind, target index>> events, in order
    preFiles,   \* outFiles as they were when the run started
    exitCode,   \* process exit status once exited (-1 while running)
    err,        \* which sys.exit / uncaught error ended the process ("" if none)
    stdout,     \* what cmd_show_config printed: sequence of <<label, value>> lines
    saved       \* the dict the last save_config call was given

vars == <<cfgFile, outFiles, pc, command, args, cfg, provider, model, api_key,
          idx, content, trace, preFiles, exitCode, err, stdout, saved>>

-----------------------------------------------------------------------------
(* Strings *)

None == <<"None">>

Truthy(x) == x # None /\ x # <<>>

\* Python's `x or y`
Or(x, y) == IF Truthy(x) THEN x ELSE y

LowerChar(c) ==
    CASE c = "O" -> "o"
      [] c = "A" -> "a"
      [] c = "I" -> "i"
      [] c = "G" -> "g"
      [] OTHER   -> c

\* str.lower()
Lower(s) == [i \in 1..Len(s) |-> LowerChar(s[i])]

IsSpace(c) == c \in {" ", "\n", "\t"}

RECURSIVE LStrip(_)
LStrip(s) == IF s # <<>> /\ IsSpace(Head(s)) THEN LStrip(Tail(s)) ELSE s

RECURSIVE RStrip(_)
RStrip(s) ==
    IF s # <<>> /\ IsSpace(s[Len(s)]) THEN RStrip(SubSeq(s, 1, Len(s) - 1)) ELSE s

\* str.strip()
Strip(s) == RStrip(LStrip(s))

\* s[:n] and s[-n:] for n > 0
Prefix(s, n) == SubSeq(s, 1, IF n < Len(s) THEN n ELSE Len(s))
Suffix(s, n) == SubSeq(s, IF Len(s) - n + 1 > 1 THEN Len(s) - n + 1 ELSE 1, Len(s))

-----------------------------------------------------------------------------
(* Dicts: sequences of <<key, value>> items, keys unique *)

EmptyDict == <<>>

Keys(d) == {d[i][1] : i \in 1..Len(d)}

Has(d, k) == k \in Keys(d)

\* d.get(k, default)
Get(d, k, default) ==
    IF Has(d, k) THEN d[CHOOSE i \in 1..Len(d) : d[i][1] = k][2] ELSE default

\* d[k] = v
Set(d, k, v) ==
    IF Has(d, k)
    THEN [i \in 1..Len(d) |-> IF d[i][1] = k THEN <<k, v>> ELSE d[i]]
    ELSE Append(d, <<k, v>>)

-----------------------------------------------------------------------------
(* ConfigStore: config.json holds the dict as JSON text.  The text is kept *)
(* as the sequence of the object's members, each <<key, string literal     *)
(* body>>, where the body is the value with " and \ escaped.               *)

NoFile == [exists |-> FALSE, data |-> <<>>]

File(d) == [exists |-> TRUE, data |-> d]

RECURSIVE Escape(_)
Escape(s) ==
    IF s = <<>> THEN <<>>
    ELSE IF Head(s) \in {"\"", "\\"}
         THEN <<"\\", Head(s)>> \o Escape(Tail(s))
         ELSE <<Head(s)>> \o Escape(Tail(s))

RECURSIVE Unescape(_)
Unescape(s) ==
    IF s = <<>> THEN <<>>
    ELSE IF Head(s) = "\\"
         THEN IF Len(s) >= 2 THEN <<s[2]>> \o Unescape(SubSeq(s, 3, Len(s)))
              ELSE <<>>
         ELSE <<Head(s)>> \o Unescape(Tail(s))

\* the values written as they are
json_dump_raw(d) == d

json_dump(d) == [i \in 1..Len(d) |-> <<d[i][1], Escape(d[i][2])>>]

json_load(text) == [i \in 1..Len(text) |-> <<text[i][1], Unescape(text[i][2])>>]

load_config(file) == IF file.exists THEN json_load(file.data) ELSE EmptyDict

save_config(d) == File(json_dump(d))

-----------------------------------------------------------------------------
(* ProviderRegistry *)

openai == <<"o", "p", "e", "n", "a", "i">>
claude == <<"c", "l", "a", "u", "d", "e">>
grok   == <<"g", "r", "o", "k">>
gemini == <<"g", "e", "m", "i", "n", "i">>

\* list(PROVIDERS.keys())
provider_keys == <<openai, claude, grok, gemini>>

PROVIDERS == {provider_keys[i] : i \in 1..Len(provider_keys)}

label(p) ==
    CASE p = openai -> "OpenAI"
      [] p = claude -> "Anthropic Claude"
      [] p = grok   -> "xAI Grok"
      [] p = gemini -> "Google Gemini"

default_model(p) ==
    CASE p = openai ->
           <<"g", "p", "t", "-", "4", "o">>
      [] p = claude ->
           <<"c", "l", "a", "u", "d", "e", "-", "s", "o", "n", "n", "e", "t", "-", "4", "-">>
           \o <<"2", "0", "2", "5", "0", "5", "1", "4">>
      [] p = grok ->
           <<"g", "r", "o", "k", "-", "3">>
      [] p = gemini ->
           <<"g", "e", "m", "i", "n", "i", "-", "2", ".", "0", "-", "f", "l", "a", "s", "h">>

\* [PROVIDERS[k]["label"] for k in PROVIDERS]
provider_names == [i \in 1..Len(provider_keys) |-> label(provider_keys[i])]

-----------------------------------------------------------------------------
(* cmd_generate: resolution of provider / model / key *)

\* provider = (args.provider or cfg.get("provider", "")).lower()
resolve_provider(a, c) == Lower(Or(a.provider, Get(c, "provider", <<>>)))

\* api_key = args.api_key or cfg.get("api_key", "")
resolve_api_key(a, c) == Or(a.api_key, Get(c, "api_key", <<>>))

\* the stored model taken before the flag
resolve_model_stored_first(a, c) ==
    LET p == resolve_provider(a, c)
        m == Or(Get(c, "model", <<>>), a.model)
    IN  IF p \in PROVIDERS /\ Truthy(m) THEN m
        ELSE IF p \in PROVIDERS THEN default_model(p) ELSE <<>>

\* model = args.model or cfg.get("model", ""), then the default of a known
\* provider when that is empty
resolve_model(a, c) ==
    LET p == resolve_provider(a, c)
        m == Or(a.model, Get(c, "model", <<>>))
    IN  IF p \in PROVIDERS /\ m = <<>> THEN default_model(p) ELSE m

\* the key checked before the provider
resolve_error_key_first(a, c) ==
    LET p == resolve_provider(a, c)
    IN  IF resolve_api_key(a, c) = <<>> THEN "MissingAPIKey"
        ELSE IF p = <<>> THEN "MissingProvider"
        ELSE IF p \notin PROVIDERS THEN "UnknownProvider"
        ELSE ""

\* the key never checked
resolve_error_no_key(a, c) ==
    LET p == resolve_provider(a, c)
    IN  IF p = <<>> THEN "MissingProvider"
        ELSE IF p \notin PROVIDERS THEN "UnknownProvider"
        ELSE ""

\* which of the three sys.exit calls of the resolution is taken, "" for none
resolve_error(a, c) ==
    LET p == resolve_provider(a, c)
    IN  IF p = <<>> THEN "MissingProvider"
        ELSE IF p \notin PROVIDERS THEN "UnknownProvider"
        ELSE IF resolve_api_key(a, c) = <<>> THEN "MissingAPIKey"
        ELSE ""

-----------------------------------------------------------------------------
(* cmd_generate: the generation loop *)

files_to_generate ==
    << <<"SOUL.md", "soul.txt">>, <<"IDENTITY.md", "identity.txt">>,
       <<"GOALS.md", "goals.txt">>, <<"USER.md", "user.txt">> >>

Targets == 1..Len(files_to_generate)

filename(i) == files_to_generate[i][1]

Filenames == {filename(i) : i \in Targets}

NoArgs == [provider |-> None, model |-> None, api_key |-> None]

\* load_prompt: what the template file is when it is read
TemplateStates == {"ok", "absent", "missing_variable"}

\* the text the provider's API answers with, before the adapter strips it
RawResponses == { <<"#", " ", "S">>, <<"\n", "#", " ", "S", " ", "\n">> }

\* call_ai raising an Exception
Raised == <<"Exception">>

\* the adapter call_ai picks for a provider; none for an unknown one
adapter(p) == IF Lower(p) \in PROVIDERS THEN Lower(p) ELSE None

\* where the loop goes after target i: the next target, or past the loop
next_target(i) ==
    <<IF i = Len(files_to_generate) THEN "finish" ELSE "render", i + 1>>

\* the except clause retrying the same target
except_retry(i) == <<"dispatch", i>>

\* the except clause giving the run up
except_abort(i) == <<"exited", i>>

\* except Exception as e: print(...); continue
except_continue(i) == next_target(i)

\* load_prompt with a template that is not there skipped like a failed dispatch
load_prompt_caught(t, i) ==
    CASE t = "ok" -> [pc |-> "dispatch", idx |-> i, exitCode |-> -1, err |-> ""]
      [] t = "absent" ->
           [pc |-> next_target(i)[1], idx |-> next_target(i)[2],
            exitCode |-> -1, err |-> ""]
      [] t = "missing_variable" ->
           [pc |-> "exited", idx |-> i, exitCode |-> 1, err |-> "KeyError"]

\* load_prompt for target i's template in state t: where the process is next.
\* sys.exit(message) when the file is not there; Template.substitute raises
\* KeyError, which nothing catches, when it names an unknown variable
load_prompt(t, i) ==
    CASE t = "ok" -> [pc |-> "dispatch", idx |-> i, exitCode |-> -1, err |-> ""]
      [] t = "absent" ->
           [pc |-> "exited", idx |-> i, exitCode |-> 1, err |-> "TemplateNotFound"]
      [] t = "missing_variable" ->
           [pc |-> "exited", idx |-> i, exitCode |-> 1, err |-> "KeyError"]

\* the file written without the newline
written_no_newline(text) == File(text)

\* f.write(content + "\n")
written(text) == File(text \o <<"\n">>)

\* an entry of trace: what was done, for which target, with which text
Event(kind, i, text) == <<kind, i, text>>

\* lines 256-314: load, resolve, exit on a resolution error, else gather the
\* agent info, make the output directory and enter the loop
GenResolve(a) ==
    /\ pc = "idle"
    /\ command' = "generate"
    /\ args' = a
    /\ cfg' = load_config(cfgFile)
    /\ provider' = resolve_provider(a, cfg')
    /\ model' = resolve_model(a, cfg')
    /\ api_key' = resolve_api_key(a, cfg')
    /\ err' = resolve_error(a, cfg')
    /\ pc' = IF err' = "" THEN "render" ELSE "exited"
    /\ exitCode' = IF err' = "" THEN -1 ELSE 1
    /\ idx' = IF err' = "" THEN 1 ELSE 0
    /\ trace' = <<>>
    /\ preFiles' = outFiles
    /\ UNCHANGED <<cfgFile, outFiles, content, stdout, saved>>

\* line 318: prompt = load_prompt(template_name, **replacements)
GenRender ==
    /\ pc = "render"
    /\ \E t \in TemplateStates :
         /\ trace' = Append(trace, Event(IF t = "ok" THEN "render" ELSE t, idx, <<>>))
         /\ pc' = load_prompt(t, idx).pc
         /\ idx' = load_prompt(t, idx).idx
         /\ exitCode' = load_prompt(t, idx).exitCode
         /\ err' = load_prompt(t, idx).err
    /\ UNCHANGED <<cfgFile, outFiles, command, args, cfg, provider, model,
                   api_key, content, preFiles, stdout, saved>>

\* lines 319-327: call_ai under try/except Exception, then the write
GenDispatch ==
    /\ pc = "dispatch"
    /\ \E r \in RawResponses \cup {Raised} :
         IF adapter(provider) = None
         THEN /\ pc' = "exited"
              /\ exitCode' = 1
              /\ err' = "UnknownProvider"
              /\ trace' = Append(trace, Event("dispatch_exit", idx, <<>>))
              /\ UNCHANGED <<outFiles, content, idx>>
         ELSE IF r = Raised
         THEN /\ trace' = Append(trace, Event("dispatch_fail", idx, <<>>))
              /\ pc' = except_continue(idx)[1]
              /\ idx' = except_continue(idx)[2]
              /\ UNCHANGED <<outFiles, content, exitCode, err>>
         ELSE /\ content' = Strip(r)
              /\ outFiles' = [outFiles EXCEPT ![filename(idx)] = written(content')]
              /\ trace' = trace \o << Event("dispatch_ok", idx, content'),
                                      Event("write", idx, content' \o <<"\n">>) >>
              /\ pc' = next_target(idx)[1]
              /\ idx' = next_target(idx)[2]
              /\ UNCHANGED <<exitCode, err>>
    /\ UNCHANGED <<cfgFile, command, args, cfg, provider, model, api_key,
                   preFiles, stdout, saved>>

\* line 329 and the return to main
GenFinish ==
    /\ pc = "finish"
    /\ pc' = "exited"
    /\ exitCode' = 0
    /\ UNCHANGED <<cfgFile, outFiles, command, args, cfg, provider, model,
                   api_key, idx, content, trace, preFiles, err, stdout, saved>>

-----------------------------------------------------------------------------
(* Interactive input helpers.  The input() calls are the user's answers;   *)
(* an answer the helper rejects only makes it ask again, so each helper is *)
(* given the answer it finally accepts.                                    *)

\* the label prompt_choice shows no current choice with
NoLabel == ""

\* raw is 0 for an empty answer and i for the number (or the name) of
\* choices[i]
prompt_choice_accepts(raw, choices, current) ==
    IF raw = 0 THEN current # NoLabel ELSE raw \in 1..Len(choices)

prompt_choice(raw, choices, current) ==
    IF raw = 0 THEN current ELSE choices[raw]

\* value is the stripped answer
prompt_input_accepts(value, current) == Truthy(current) \/ value # <<>>

prompt_input(value, current) ==
    IF Truthy(current) THEN (IF value # <<>> THEN value ELSE current) ELSE value

\* provider_names.index(chosen_label)
index(names, name) == CHOOSE i \in 1..Len(names) : names[i] = name

-----------------------------------------------------------------------------
(* cmd_configure *)

current_provider_label(c) ==
    IF Has(c, "provider") /\ Get(c, "provider", None) \in PROVIDERS
    THEN label(Get(c, "provider", None))
    ELSE NoLabel

\* the key of the provider the user chose
chosen_key(c, raw) ==
    provider_keys[index(provider_names,
                        prompt_choice(raw, provider_names, current_provider_label(c)))]

\* a provider's label, character by character
label_text(p) ==
    CASE p = openai -> <<"O", "p", "e", "n", "A", "I">>
      [] p = claude -> <<"A", "n", "t", "h", "r", "o", "p", "i", "c", " ", "C", "l", "a", "u", "d", "e">>
      [] p = grok -> <<"x", "A", "I", " ", "G", "r", "o", "k">>
      [] p = gemini -> <<"G", "o", "o", "g", "l", "e", " ", "G", "e", "m", "i", "n", "i">>

\* the chosen label saved where the key belongs
configured_label(c, raw, modelIn, keyIn) ==
    LET c1 == Set(c, "provider", label_text(chosen_key(c, raw)))
        current_model == Get(c1, "model", default_model(chosen_key(c, raw)))
        c2 == Set(c1, "model", prompt_input(Strip(modelIn), current_model))
    IN  Set(c2, "api_key", prompt_input(Strip(keyIn), Get(c2, "api_key", None)))

\* the dict cmd_configure saves, given the loaded dict and the three answers
configured(c, raw, modelIn, keyIn) ==
    LET c1 == Set(c, "provider", chosen_key(c, raw))
        current_model == Get(c1, "model", default_model(chosen_key(c, raw)))
        c2 == Set(c1, "model", prompt_input(Strip(modelIn), current_model))
    IN  Set(c2, "api_key", prompt_input(Strip(keyIn), Get(c2, "api_key", None)))

cmd_configure(raw, modelIn, keyIn) ==
    /\ pc = "idle"
    /\ LET c == load_config(cfgFile)
       IN  /\ prompt_choice_accepts(raw, provider_names, current_provider_label(c))
           /\ prompt_input_accepts(Strip(modelIn),
                                   Get(c, "model", default_model(chosen_key(c, raw))))
           /\ prompt_input_accepts(Strip(keyIn), Get(c, "api_key", None))
           /\ cfg' = configured(c, raw, modelIn, keyIn)
    /\ saved' = cfg'
    /\ cfgFile' = save_config(cfg')
    /\ command' = "configure"
    /\ pc' = "exited"
    /\ exitCode' = 0
    /\ UNCHANGED <<outFiles, args, provider, model, api_key, idx, content,
                   trace, preFiles, err, stdout>>

-----------------------------------------------------------------------------
(* cmd_show_config *)

MaskThreshold == 8

MaskKeep == 4

\* the comparison off by one
mask_from_threshold(key) ==
    IF Len(key) >= MaskThreshold
    THEN Prefix(key, MaskKeep) \o <<".", ".", ".">> \o Suffix(key, MaskKeep)
    ELSE <<"*", "*", "*">>

\* masked = key[:4] + "..." + key[-4:] if len(key) > 8 else "***"
mask(key) ==
    IF Len(key) > MaskThreshold
    THEN Prefix(key, MaskKeep) \o <<".", ".", ".">> \o Suffix(key, MaskKeep)
    ELSE <<"*", "*", "*">>

NA == <<"N", "/", "A">>

\* PROVIDERS.get(cfg.get('provider', ''), {}).get('label', cfg.get('provider', 'N/A'))
shown_provider(c) ==
    IF Get(c, "provider", <<>>) \in PROVIDERS
    THEN <<label(Get(c, "provider", <<>>))>>
    ELSE Get(c, "provider", NA)

show_lines(c) ==
    IF c = EmptyDict
    THEN << <<"No configuration found", <<>> >> >>
    ELSE << <<"Provider", shown_provider(c)>>,
            <<"Model", Get(c, "model", NA)>>,
            <<"API Key", mask(Get(c, "api_key", <<>>))>> >>

cmd_show_config ==
    /\ pc = "idle"
    /\ cfg' = load_config(cfgFile)
    /\ stdout' = show_lines(cfg')
    /\ command' = "show-config"
    /\ pc' = "exited"
    /\ exitCode' = 0
    /\ UNCHANGED <<cfgFile, outFiles, args, provider, model, api_key, idx,
                   content, trace, preFiles, err, saved>>

-----------------------------------------------------------------------------
(* The process ends; the next invocation starts with fresh locals *)

ProcessExit ==
    /\ pc = "exited"
    /\ pc' = "idle"
    /\ command' = ""
    /\ args' = NoArgs
    /\ cfg' = EmptyDict
    /\ provider' = <<>>
    /\ model' = <<>>
    /\ api_key' = <<>>
    /\ idx' = 0
    /\ content' = <<>>
    /\ trace' = <<>>
    /\ preFiles' = outFiles
    /\ exitCode' = -1
    /\ err' = ""
    /\ stdout' = <<>>
    /\ saved' = EmptyDict
    /\ UNCHANGED <<cfgFile, outFiles>>

-----------------------------------------------------------------------------
(* Inputs *)

\* a dict with the given fields, None for a field that is not there
MkCfg(p, m, k) ==
    (IF p = None THEN <<>> ELSE << <<"provider", p>> >>)
    \o (IF m = None THEN <<>> ELSE << <<"model", m>> >>)
    \o (IF k = None THEN <<>> ELSE << <<"api_key", k>> >>)

OpenAI_mixed == <<"O", "p", "e", "n", "A", "I">>
bogus == <<"b", "o", "g", "u", "s">>
flag_model == <<"f", "m">>
stored_model == <<"s", "m">>
flag_key == <<"f", "k">>
KeyChars == <<"s", "k", "-", "A", "B", "C", "D", "E", "F", "G", "H", "I", "J", "K">>

MaxKeyLen == 12

\* the API keys tried: every run of at most MaxKeyLen characters of KeyChars
KeyStrings ==
    {SubSeq(KeyChars, q[1], q[2]) :
        q \in {r \in (1..Len(KeyChars)) \X (0..Len(KeyChars)) :
                  r[2] - r[1] + 1 \in 0..MaxKeyLen}}

stored_key == SubSeq(KeyChars, 1, 9)

\* argparse: --provider takes one of PROVIDERS' keys (choices=), --model and
\* --api-key any string, the empty one too; None when the flag is not given
ResolveArgs ==
    [provider : {None} \cup PROVIDERS,
     model : {None, <<>>, flag_model},
     api_key : {None, <<>>, flag_key}]

\* config.json as any editor may have left it
ResolveConfigs ==
    {MkCfg(p, m, k) : p \in {None, <<>>, grok, OpenAI_mixed, bogus},
                      m \in {None, <<>>, stored_model},
                      k \in {None, <<>>, stored_key}}

ShowConfigs ==
    {MkCfg(p, m, k) : p \in {None, openai, bogus},
                      m \in {None, stored_model},
                      k \in {None} \cup KeyStrings}

StoreStrings ==
    {<<>>, <<"a">>, <<"\"">>, <<"\\">>, <<"a", "\\", "\"", "b">>, <<"\\", "\\">>}

StoreConfigs ==
    {MkCfg(p, m, k) : p \in {None} \cup StoreStrings,
                      m \in {None} \cup StoreStrings,
                      k \in {None} \cup StoreStrings}

\* the command lines and answers tried in whole sessions
CliArgs ==
    [provider : {None, claude}, model : {None, flag_model},
     api_key : {None, flag_key}]

CliConfigs ==
    {MkCfg(OpenAI_mixed, None, stored_key), MkCfg(bogus, stored_model, stored_key),
     MkCfg(None, stored_model, None), MkCfg(gemini, <<>>, <<>>)}

ChoiceAnswers == 0..Len(provider_keys)

ModelAnswers == {<<>>, <<" ", "f", "m">>}

KeyAnswers == {<<>>, <<"f", "k", " ">>}

-----------------------------------------------------------------------------
(* Specifications *)

InitLocals ==
    /\ pc = "idle"
    /\ command = ""
    /\ args = NoArgs
    /\ cfg = EmptyDict
    /\ provider = <<>>
    /\ model = <<>>
    /\ api_key = <<>>
    /\ idx = 0
    /\ content = <<>>
    /\ trace = <<>>
    /\ exitCode = -1
    /\ err = ""
    /\ stdout = <<>>
    /\ saved = EmptyDict

EmptyDir == [f \in Filenames |-> NoFile]

\* any session of the three sub-commands, over a config.json that is not
\* there or was edited by hand, and an empty output directory
Init ==
    /\ InitLocals
    /\ cfgFile \in {NoFile} \cup {save_config(c) : c \in CliConfigs}
    /\ outFiles = EmptyDir
    /\ preFiles = outFiles

Next ==
    \/ \E a \in CliArgs : GenResolve(a)
    \/ GenRender
    \/ GenDispatch
    \/ GenFinish
    \/ \E raw \in ChoiceAnswers, m \in ModelAnswers, k \in KeyAnswers :
          cmd_configure(raw, m, k)
    \/ cmd_show_config
    \/ ProcessExit

Spec == Init /\ [][Next]_vars

\* the same sessions, starting with no config.json
InitFresh ==
    /\ InitLocals
    /\ cfgFile = NoFile
    /\ outFiles = EmptyDir
    /\ preFiles = outFiles

SpecFresh == InitFresh /\ [][Next]_vars

\* the resolution of cmd_generate on every stored dict and command line
InitResolve ==
    /\ InitLocals
    /\ cfgFile \in {NoFile} \cup {save_config(c) : c \in ResolveConfigs}
    /\ outFiles = EmptyDir
    /\ preFiles = outFiles

NextResolve ==
    \/ \E a \in ResolveArgs : GenResolve(a)

SpecResolve == InitResolve /\ [][NextResolve]_vars

\* cmd_show_config on every stored dict
InitShow ==
    /\ InitLocals
    /\ cfgFile \in {NoFile} \cup {save_config(c) : c \in ShowConfigs}
    /\ outFiles = EmptyDir
    /\ preFiles = outFiles

NextShow ==
    \/ cmd_show_config
    \/ ProcessExit

SpecShow == InitShow /\ [][NextShow]_vars

\* save_config and load_config on every dict
StoreSave(c) ==
    /\ pc \in {"idle", "saved", "loaded"}
    /\ saved' = c
    /\ cfg' = EmptyDict
    /\ cfgFile' = save_config(c)
    /\ pc' = "saved"
    /\ UNCHANGED <<outFiles, command, args, provider, model, api_key, idx,
                   content, trace, preFiles, exitCode, err, stdout>>

StoreLoad ==
    /\ pc \in {"idle", "saved"}
    /\ cfg' = load_config(cfgFile)
    /\ pc' = "loaded"
    /\ UNCHANGED <<cfgFile, outFiles, command, args, provider, model, api_key,
                   idx, content, trace, preFiles, exitCode, err, stdout, saved>>

NextStore ==
    \/ \E c \in StoreConfigs : StoreSave(c)
    \/ StoreLoad

SpecStore == InitFresh /\ [][NextStore]_vars

-----------------------------------------------------------------------------
(* Properties *)

ResolutionErrors == {"MissingProvider", "UnknownProvider", "MissingAPIKey"}

\* the value stored under a field, None when the field is not stored
StoredOf(f) == Get(cfg, f, None)

\* the first of flag and stored value that is given and not empty, else ""
Pick(f) ==
    IF Truthy(args[f]) THEN args[f]
    ELSE IF Truthy(StoredOf(f)) THEN StoredOf(f) ELSE <<>>

\* the first of flag and stored value that is there at all, else None
PickPresent(f) == IF args[f] # None THEN args[f] ELSE StoredOf(f)

Did(kind, i) == \E n \in 1..Len(trace) : trace[n][1] = kind /\ trace[n][2] = i

Dispatched(i) == Did("dispatch_ok", i) \/ Did("dispatch_fail", i)

\* target i went through the loop body as the code means it to
Processed(i) ==
    /\ Did("render", i)
    /\ Dispatched(i)
    /\ Did("dispatch_ok", i) => Did("write", i) /\ outFiles[filename(i)].exists

LastEvent == trace[Len(trace)]

\* dict equality: same keys, same values, whatever the order
DictEq(a, b) ==
    /\ Keys(a) = Keys(b)
    /\ \A k \in Keys(a) : Get(a, k, None) = Get(b, k, None)

\* C1 as stated: each effective value of cmd_generate is the flag's value when
\* the flag is present, else the stored value when that is present, else (for
\* the model) the default model of the effective provider.
C1_AsStated ==
    command = "generate" =>
        /\ PickPresent("provider") # None => provider = PickPresent("provider")
        /\ PickPresent("api_key") # None => api_key = PickPresent("api_key")
        /\ provider \in PROVIDERS =>
             model = IF PickPresent("model") # None THEN PickPresent("model")
                     ELSE default_model(provider)

\* C1 amended: a flag or stored value counts only when it is not the empty
\* string.  The effective provider is the lower-cased first of flag and stored
\* value, the effective key the first of flag and stored key, the effective
\* model the first of flag and stored model or, with neither, the default model
\* of the effective provider.
C1_Precedence ==
    command = "generate" =>
        /\ provider = Lower(Pick("provider"))
        /\ api_key = Pick("api_key")
        /\ model = IF Pick("model") # <<>> THEN Pick("model")
                   ELSE IF provider \in PROVIDERS THEN default_model(provider)
                   ELSE <<>>

\* all three tiers at once: the provider flag beats a stored provider, the
\* stored key is used under an empty key flag, the model is the default
C1_Witness ==
    /\ pc = "render"
    /\ args = [provider |-> claude, model |-> None, api_key |-> <<>>]
    /\ cfg = MkCfg(OpenAI_mixed, <<>>, stored_key)
    /\ provider = claude
    /\ api_key = stored_key
    /\ model = default_model(claude)

\* C2: a run whose resolution ends with no provider, an unknown provider or no
\* key has exited with a non-zero status, has rendered, dispatched and written
\* nothing, and has left every output file as it was.
C2_FatalBeforeGeneration ==
    (command = "generate"
       /\ (provider = <<>> \/ provider \notin PROVIDERS \/ api_key = <<>>))
    => /\ pc = "exited"
       /\ exitCode = 1
       /\ err \in ResolutionErrors
       /\ trace = <<>>
       /\ outFiles = preFiles

\* a run stopped for its missing key, over an output directory that holds a
\* file of an earlier run
C2_Witness ==
    /\ command = "generate"
    /\ err = "MissingAPIKey"
    /\ pc = "exited"
    /\ provider \in PROVIDERS
    /\ outFiles["SOUL.md"].exists

\* C3 as stated: an effective provider id (the flag if present, else the stored
\* one) that is present and is no key of the registry gives the unknown-provider
\* error.
C3_AsStated ==
    (command = "generate"
       /\ PickPresent("provider") # None
       /\ PickPresent("provider") \notin PROVIDERS)
    => err = "UnknownProvider"

\* C3 amended: resolution fails with the unknown-provider error exactly when
\* the effective provider id is not empty and, lower-cased, is no key of the
\* registry, whatever the model and the key are.
C3_UnknownProvider ==
    command = "generate" =>
        ((err = "UnknownProvider" /\ pc = "exited" /\ exitCode = 1)
           <=> (Pick("provider") # <<>> /\ Lower(Pick("provider")) \notin PROVIDERS))

\* an unknown stored provider, and neither a key nor a model anywhere
C3_Witness ==
    /\ command = "generate"
    /\ StoredOf("provider") = bogus
    /\ args = NoArgs
    /\ ~Has(cfg, "api_key")
    /\ ~Has(cfg, "model")
    /\ err = "UnknownProvider"

Returned(i) ==
    trace[CHOOSE n \in 1..Len(trace) :
             trace[n][1] = "dispatch_ok" /\ trace[n][2] = i][3]

\* C6: in a generate run a target's file is written exactly when its dispatch
\* returned, and then holds the returned text and one newline, nothing else;
\* the file of a target whose dispatch did not return is as it was before the
\* run.
C6_FileIffDispatchReturned ==
    command = "generate" =>
        \A i \in Targets :
            /\ Did("write", i) <=> Did("dispatch_ok", i)
            /\ Did("dispatch_ok", i) =>
                 /\ outFiles[filename(i)].exists
                 /\ outFiles[filename(i)].data = Returned(i) \o <<"\n">>
                 /\ Returned(i) \in {Strip(r) : r \in RawResponses}
                 /\ (\A j \in Targets : Did("dispatch_ok", j) => j <= i)
                      => Returned(i) = content
            /\ ~Did("dispatch_ok", i) =>
                 outFiles[filename(i)] = preFiles[filename(i)]

\* the first dispatch failed over a file of an earlier run, which stays; the
\* second returned and its file, not there before, is written
C6_Witness ==
    /\ command = "generate"
    /\ pc = "exited"
    /\ Did("dispatch_fail", 1)
    /\ preFiles[filename(1)].exists
    /\ outFiles[filename(1)] = preFiles[filename(1)]
    /\ Did("dispatch_ok", 2)
    /\ ~preFiles[filename(2)].exists
    /\ outFiles[filename(2)].data = <<"#", " ", "S", "\n">>

\* the key show-config masked, and the line it printed for it
ShownKey == Get(cfg, "api_key", <<>>)
MaskedKey == stdout[3][2]

C8_RoundTrip ==
    pc = "loaded" =>
        IF cfgFile.exists THEN DictEq(cfg, saved) /\ Len(cfg) = Len(saved)
        ELSE cfg = EmptyDict

\* a dict without provider, with values that need escaping, saved and loaded
C8_Witness ==
    /\ pc = "loaded"
    /\ cfgFile.exists
    /\ saved = MkCfg(None, <<"a", "\\", "\"", "b">>, <<"\\">>)
    /\ cfg = saved

\* the order of an event in the body of the loop
Rank(e) ==
    CASE e[1] \in {"render", "absent", "missing_variable"} -> 1
      [] e[1] \in {"dispatch_ok", "dispatch_fail", "dispatch_exit"} -> 2
      [] e[1] = "write" -> 3

\* C9: the targets are SOUL.md, IDENTITY.md, GOALS.md, USER.md in this order;
\* what a run does is ordered by target and, within a target, render before
\* dispatch before write, so no target is rendered or dispatched twice and a
\* target is begun only when the one before it is done.
C9_SequentialSingleAttempt ==
    command = "generate" =>
        /\ [i \in Targets |-> filename(i)]
             = <<"SOUL.md", "IDENTITY.md", "GOALS.md", "USER.md">>
        /\ \A m, n \in 1..Len(trace) :
              m < n => \/ trace[m][2] < trace[n][2]
                       \/ trace[m][2] = trace[n][2] /\ Rank(trace[m]) < Rank(trace[n])
        /\ trace # <<>> => trace[1][2] = 1 /\ Rank(trace[1]) = 1
        /\ \A n \in 2..Len(trace) :
              trace[n][2] # trace[n - 1][2] =>
                  /\ trace[n][2] = trace[n - 1][2] + 1
                  /\ Rank(trace[n]) = 1
                  /\ trace[n - 1][1] \in {"dispatch_fail", "write"}
        /\ \A n \in 1..Len(trace) :
              trace[n][1] = "write" =>
                  n > 1 /\ trace[n - 1] = Event("dispatch_ok", trace[n][2], Returned(trace[n][2]))

\* a whole run: three targets written, the third failed once and was left
C9_Witness ==
    /\ command = "generate"
    /\ pc = "exited"
    /\ exitCode = 0
    /\ Len(trace) = 11
    /\ Did("dispatch_fail", 3)

\* the provider stored in config.json is a key of the registry, if there is one
StoredProviderKnown ==
    Has(load_config(cfgFile), "provider")
        => Get(load_config(cfgFile), "provider", None) \in PROVIDERS

\* C10: starting without config.json, the stored provider is always a key of
\* the registry, and config.json changes only in a step of configure.
C10_StoredProviderKnown ==
    /\ []StoredProviderKnown
    /\ [][cfgFile' # cfgFile => command' = "configure"]_vars

\* a generate run with all three overrides has finished over a stored dict
\* that names other values, and the stored dict is still that
C10_Witness ==
    /\ command = "generate"
    /\ pc = "exited"
    /\ exitCode = 0
    /\ args = [provider |-> claude, model |-> flag_model, api_key |-> flag_key]
    /\ load_config(cfgFile) = MkCfg(gemini, default_model(openai), flag_key)

====
